---- MODULE Spec2Model ----
(***************************************************************************)
(* Model of the peer fault-isolation layer of bee:                         *)
(*   - pkg/p2p/libp2p/internal/breaker/breaker.go   (circuit breaker)      *)
(*   - pkg/p2p/libp2p/internal/blocklist/blocklist.go (peer blocklist)     *)
(*                                                                         *)
(* Time: `now` is the mocked clock (timeNow).  The zero time.Time is 0 and *)
(* the clock starts at 1, so IsZero() is "= 0".  For the breaker one unit  *)
(* of time is a minute (the defaults are 30, 60 and 2 minutes); for the    *)
(* blocklist one unit is a nanosecond, the unit of time.Duration, so that  *)
(* the -1 that get returns next to an error is exactly Go's -1.            *)
(***************************************************************************)
EXTENDS Integers, Sequences, FiniteSets, TLC

VARIABLES
    b,          \* the breaker struct (breaker.go:41-50)
    pc,         \* per caller of Execute: "idle", or "f" while f() runs outside the lock
    now,        \* the value timeNow() returns
    last,       \* the call that made the last step, with its result and the state it started from
    gStreak,    \* observed: length of the current run of Execute calls whose f() failed
    gFirst,     \* observed: time the first failure of that run was reported
    gLast,      \* observed: time the last failure of that run was reported
    everLimit,  \* observed: some run of failed calls has reached b.limit
    viaCooldown,\* per caller: its beforef found the breaker tripped and the backoff elapsed
    store,      \* the blocklist's state store, a map from keys to entries
    indef,      \* observed: the addresses for which Add(a, 0) has been called
    gTrip,      \* observed: the time at which consFailedCalls last became equal to limit
    calls,      \* per goroutine: the blocklist call it is in the middle of
    metric      \* the last call of a function of the overlay metric, with its result

vars == <<b, pc, now, last, gStreak, gFirst, gLast, everLimit, viaCooldown, store, indef,
          gTrip, calls, metric>>

breakerVars == <<b, pc, gStreak, gFirst, gLast, everLimit, viaCooldown, gTrip>>
blocklistVars == <<store, indef>>
extraVars == <<calls, metric>>

(***************************************************************************)
(* Bounds                                                                  *)
(***************************************************************************)
MaxTime == 5        \* the clock runs from 1 to MaxTime
MaxDur == 2         \* Add is called with durations -2 and 0..MaxDur

Procs == {1, 2}     \* goroutines calling Execute / ClosedUntil
ZeroTime == 0       \* time.Time{}

Min(x, y) == IF x <= y THEN x ELSE y
Max(x, y) == IF x >= y THEN x ELSE y

(***************************************************************************)
(* breaker.go                                                              *)
(***************************************************************************)
\* defaults, breaker.go:13-19 (durations in minutes)
limit == 100
failInterval == 30
maxBackoff == 60
backoff == 2

\* The Options NewBreaker is called with.  0 selects the default.
LimitOptions == {1, 2, 3}
FailIntervalOptions == {0, 2}
StartBackoffOptions == {0, 1}
MaxBackoffOptions == {1, 3}

Options == [Limit : LimitOptions, FailInterval : FailIntervalOptions,
            StartBackoff : StartBackoffOptions, MaxBackoff : MaxBackoffOptions]

NewBreaker(o) ==
    [limit                |-> IF o.Limit = 0 THEN limit ELSE o.Limit,
     consFailedCalls      |-> 0,
     firstFailedTimestamp |-> ZeroTime,
     closedTimestamp      |-> ZeroTime,
     backoff              |-> IF o.StartBackoff = 0 THEN backoff ELSE o.StartBackoff,
     maxBackoff           |-> IF o.MaxBackoff = 0 THEN maxBackoff ELSE o.MaxBackoff,
     failInterval         |-> IF o.FailInterval = 0 THEN failInterval ELSE o.FailInterval]

resetFailedCountOnly(br) == [br EXCEPT !.consFailedCalls = 0]

resetFailed(br) ==
    [br EXCEPT !.consFailedCalls = 0, !.firstFailedTimestamp = ZeroTime]

\* the value ClosedUntil returns at time t
ClosedUntilNoBackoff(br, t) ==
    IF br.consFailedCalls >= br.limit THEN br.closedTimestamp ELSE t

ClosedUntil(br, t) ==
    IF br.consFailedCalls >= br.limit
    THEN br.closedTimestamp + br.backoff
    ELSE t

\* the decay check at the end of beforef (breaker.go:132-135)
decay(br, t) ==
    IF br.firstFailedTimestamp # ZeroTime /\ t - br.firstFailedTimestamp >= br.failInterval
    THEN resetFailed(br)
    ELSE br

\* the doubling of the backoff (breaker.go:125-129)
backoffKeep(br) == br

growBackoff(br) ==
    IF br.backoff * 2 <= br.maxBackoff
    THEN [br EXCEPT !.backoff = br.backoff * 2]
    ELSE [br EXCEPT !.backoff = br.maxBackoff]

\* beforef at time t: the error it returns and the breaker it leaves
beforefNoTripCheck(br, t) == [err |-> "nil", br |-> decay(br, t)]

beforefRejectRestarts(br, t) ==
    IF br.consFailedCalls >= br.limit
    THEN IF br.closedTimestamp = ZeroTime \/ t - br.closedTimestamp < br.backoff
         THEN [err |-> "ErrClosed", br |-> [br EXCEPT !.closedTimestamp = t]]
         ELSE [err |-> "nil", br |-> decay(growBackoff(resetFailed(br)), t)]
    ELSE [err |-> "nil", br |-> decay(br, t)]

beforef(br, t) ==
    IF br.consFailedCalls >= br.limit
    THEN IF br.closedTimestamp = ZeroTime \/ t - br.closedTimestamp < br.backoff
         THEN [err |-> "ErrClosed", br |-> br]
         ELSE [err |-> "nil", br |-> decay(growBackoff(resetFailed(br)), t)]
    ELSE [err |-> "nil", br |-> decay(br, t)]

\* afterf at time t, failed = (err != nil): the breaker it leaves
afterfKeepOnSuccess(br, t, failed) ==
    IF failed
    THEN LET b1 == IF br.consFailedCalls = 0
                   THEN [br EXCEPT !.firstFailedTimestamp = t] ELSE br
             b2 == [b1 EXCEPT !.consFailedCalls = b1.consFailedCalls + 1]
         IN  IF b2.consFailedCalls = b2.limit
             THEN [b2 EXCEPT !.closedTimestamp = t] ELSE b2
    ELSE br

afterfTripOnce(br, t, failed) ==
    IF failed
    THEN LET b1 == IF br.consFailedCalls = 0
                   THEN [br EXCEPT !.firstFailedTimestamp = t] ELSE br
             b2 == [b1 EXCEPT !.consFailedCalls = b1.consFailedCalls + 1]
         IN  IF b2.consFailedCalls = b2.limit /\ b2.closedTimestamp = ZeroTime
             THEN [b2 EXCEPT !.closedTimestamp = t] ELSE b2
    ELSE resetFailed(br)

afterf(br, t, failed) ==
    IF failed
    THEN LET b1 == IF br.consFailedCalls = 0
                   THEN [br EXCEPT !.firstFailedTimestamp = t] ELSE br
             b2 == [b1 EXCEPT !.consFailedCalls = b1.consFailedCalls + 1]
         IN  IF b2.consFailedCalls = b2.limit
             THEN [b2 EXCEPT !.closedTimestamp = t] ELSE b2
    ELSE resetFailed(br)

(***************************************************************************)
(* Actions of the breaker.  Execute (breaker.go:90-96) is two critical     *)
(* sections with f() between them, outside the lock.                       *)
(***************************************************************************)
\* what the callers have observed so far of the current run of failed calls
Observed == [streak |-> gStreak, first |-> gFirst, last |-> gLast]

NoCall == [op |-> "none"]
Idle == [op |-> "idle"]

\* Execute, first half: beforef; on ErrClosed Execute returns without calling f
ExecuteBefore(p) ==
    /\ pc[p] = "idle"
    /\ LET r == beforef(b, now) IN
        /\ b' = r.br
        /\ pc' = [pc EXCEPT ![p] = IF r.err = "nil" THEN "f" ELSE "idle"]
        /\ last' = [op |-> "beforef", p |-> p, ret |-> r.err, pre |-> b, t |-> now,
                    obs |-> Observed]
        /\ viaCooldown' = [viaCooldown EXCEPT
                              ![p] = (b.consFailedCalls >= b.limit /\ r.err = "nil")]
        /\ gStreak' = IF r.err = "nil" THEN gStreak ELSE 0
        /\ gFirst' = IF r.err = "nil" THEN gFirst ELSE ZeroTime
        /\ gLast' = IF r.err = "nil" THEN gLast ELSE ZeroTime
    /\ UNCHANGED <<now, everLimit, gTrip, store, indef, extraVars>>

\* Execute, second half: f() has returned (failed or not) and afterf runs
ExecuteAfter(p) ==
    /\ pc[p] = "f"
    /\ \E failed \in BOOLEAN :
        /\ b' = afterf(b, now, failed)
        /\ last' = [op |-> "afterf", p |-> p, failed |-> failed, pre |-> b, t |-> now]
        /\ gStreak' = IF failed THEN Min(gStreak + 1, b.limit + 1) ELSE 0
        /\ gFirst' = IF failed THEN (IF gStreak = 0 THEN now ELSE gFirst) ELSE ZeroTime
        /\ gLast' = IF failed THEN now ELSE ZeroTime
        /\ everLimit' = (everLimit \/ (failed /\ gStreak + 1 >= b.limit))
        /\ gTrip' = IF failed /\ b.consFailedCalls + 1 = b.limit THEN now ELSE gTrip
    /\ pc' = [pc EXCEPT ![p] = "idle"]
    /\ UNCHANGED <<now, viaCooldown, store, indef, extraVars>>

CallClosedUntil(p) ==
    /\ last' = [op |-> "ClosedUntil", p |-> p, ret |-> ClosedUntil(b, now), pre |-> b,
                t |-> now]
    /\ UNCHANGED <<breakerVars, now, store, indef, extraVars>>

\* the clock advances
Tick ==
    /\ now < MaxTime
    /\ now' = now + 1
    /\ last' = [op |-> "tick"]
    /\ UNCHANGED <<breakerVars, blocklistVars, extraVars>>

BreakerInit ==
    /\ \E o \in Options : b = NewBreaker(o)
    /\ pc = [p \in Procs |-> "idle"]
    /\ now = 1
    /\ last = NoCall
    /\ gStreak = 0
    /\ gFirst = ZeroTime
    /\ gLast = ZeroTime
    /\ everLimit = FALSE
    /\ viaCooldown = [p \in Procs |-> FALSE]
    /\ store = <<>>
    /\ indef = {}
    /\ gTrip = ZeroTime
    /\ calls = [p \in Procs |-> Idle]
    /\ metric = NoCall

\* any number of goroutines share the breaker
BreakerNext ==
    \/ \E p \in Procs : ExecuteBefore(p)
    \/ \E p \in Procs : ExecuteAfter(p)
    \/ \E p \in Procs : CallClosedUntil(p)
    \/ Tick

SpecBreaker == BreakerInit /\ [][BreakerNext]_vars

\* one goroutine calls Execute and ClosedUntil, one call after the other
BreakerSeqNext ==
    \/ ExecuteBefore(1)
    \/ ExecuteAfter(1)
    \/ CallClosedUntil(1)
    \/ Tick

SpecBreakerSeq == BreakerInit /\ [][BreakerSeqNext]_vars

(***************************************************************************)
(* blocklist.go                                                            *)
(***************************************************************************)
Addrs == {1, 2}                          \* overlay addresses
Durations == {-2} \cup (0..MaxDur)       \* the durations Add is called with (ns)

keyPrefix == "blocklist-"
generateKey(overlay) == <<keyPrefix, overlay>>
unmarshalKey(k) == k[2]
HasPrefix(k, prefix) == k[1] = prefix

\* time.Duration.String, for |d| < 1000 (below a microsecond): "0s", "2ns", "-1ns";
\* the text is <<sign, digits, unit>>
DurationString(d) ==
    IF d = 0 THEN <<"", 0, "s">>
    ELSE <<IF d < 0 THEN "-" ELSE "", IF d < 0 THEN -d ELSE d, "ns">>

\* time.ParseDuration: sign, then digits scaled by the unit
unitMap == [ns |-> 1, us |-> 1000, ms |-> 1000000, s |-> 1000000000]
ParseDuration(s) ==
    IF s[2] = 0 THEN 0
    ELSE (IF s[1] = "-" THEN -1 ELSE 1) * s[2] * unitMap[s[3]]

getZeroOnMissing(st, key) ==
    IF key \notin DOMAIN st
    THEN [timestamp |-> ZeroTime, duration |-> 0, err |-> "ErrNotFound"]
    ELSE [timestamp |-> st[key].Timestamp,
          duration  |-> ParseDuration(st[key].Duration),
          err       |-> "nil"]

\* Blocklist.get (blocklist.go:111-123) on the store st
get(st, key) ==
    IF key \notin DOMAIN st
    THEN [timestamp |-> ZeroTime, duration |-> -1, err |-> "ErrNotFound"]
    ELSE [timestamp |-> st[key].Timestamp,
          duration  |-> ParseDuration(st[key].Duration),
          err       |-> "nil"]

\* store.Put and store.Delete on a store that does not fail
Put(st, key, e) == [k \in DOMAIN st \cup {key} |-> IF k = key THEN e ELSE st[k]]
Delete(st, key) == [k \in DOMAIN st \ {key} |-> st[k]]

\* the expiry test of Exists and Peers (blocklist.go:46, 95)
expiredInclusive(t, timestamp, duration) == t - timestamp >= duration /\ duration # 0

expired(t, timestamp, duration) == t - timestamp > duration /\ duration # 0

\* Blocklist.Exists at time t: what it returns and the store it leaves
Exists(st, overlay, t) ==
    LET key == generateKey(overlay)
        g == get(st, key)
    IN  IF g.err # "nil"
        THEN [ret |-> FALSE, err |-> "nil", store |-> st]
        ELSE IF expired(t, g.timestamp, g.duration)
             THEN [ret |-> FALSE, err |-> "nil", store |-> Delete(st, key)]
             ELSE [ret |-> TRUE, err |-> "nil", store |-> st]

\* the duration Add stores, from the requested one and the d that get returned
effectiveShorter(duration, d) ==
    IF (duration > d /\ duration # 0) \/ d = 0 THEN d ELSE duration

effectiveForgetIndefinite(duration, d) ==
    IF duration < d /\ duration # 0 THEN d ELSE duration

effective(duration, d) ==
    IF (duration < d /\ duration # 0) \/ d = 0 THEN d ELSE duration

\* Blocklist.Add at time t: the store it leaves
Add(st, overlay, duration, t) ==
    LET key == generateKey(overlay)
        g == get(st, key)
    IN  Put(st, key, [Timestamp |-> t,
                      Duration  |-> DurationString(effective(duration, g.duration))])

\* Blocklist.Peers at time t: the addresses it returns (the store is only read)
PeersAll(st, t) ==
    {unmarshalKey(k) : k \in {k \in DOMAIN st : HasPrefix(k, keyPrefix)}}

Peers(st, t) ==
    {unmarshalKey(k) :
        k \in {k \in DOMAIN st :
                 /\ HasPrefix(k, keyPrefix)
                 /\ ~expired(t, get(st, k).timestamp, get(st, k).duration)}}

(***************************************************************************)
(* Actions of the blocklist: one caller, each call runs to its end         *)
(***************************************************************************)
CallExists(a) ==
    /\ LET r == Exists(store, a, now) IN
        /\ store' = r.store
        /\ last' = [op |-> "Exists", a |-> a, ret |-> r.ret, pre |-> store, t |-> now]
    /\ UNCHANGED <<breakerVars, now, indef, extraVars>>

CallAdd(a, d) ==
    /\ store' = Add(store, a, d, now)
    /\ last' = [op |-> "Add", a |-> a, d |-> d, pre |-> store, t |-> now]
    /\ indef' = IF d = 0 THEN indef \cup {a} ELSE indef
    /\ UNCHANGED <<breakerVars, now, extraVars>>

CallPeers ==
    /\ last' = [op |-> "Peers", ret |-> Peers(store, now), pre |-> store, t |-> now]
    /\ UNCHANGED <<breakerVars, now, store, indef, extraVars>>

BlocklistInit ==
    /\ b = NewBreaker([Limit |-> 0, FailInterval |-> 0, StartBackoff |-> 0,
                       MaxBackoff |-> 0])
    /\ pc = [p \in Procs |-> "idle"]
    /\ now = 1
    /\ last = NoCall
    /\ gStreak = 0
    /\ gFirst = ZeroTime
    /\ gLast = ZeroTime
    /\ everLimit = FALSE
    /\ viaCooldown = [p \in Procs |-> FALSE]
    /\ store = <<>>
    /\ indef = {}
    /\ gTrip = ZeroTime
    /\ calls = [p \in Procs |-> Idle]
    /\ metric = NoCall

BlocklistNext ==
    \/ \E a \in Addrs : CallExists(a)
    \/ \E a \in Addrs, d \in Durations : CallAdd(a, d)
    \/ CallPeers
    \/ Tick

SpecBlocklist == BlocklistInit /\ [][BlocklistNext]_vars

(***************************************************************************)
(* The blocklist on a store whose operations can fail.  One caller, each   *)
(* call runs to its end; faults is the set of store operations that fail,  *)
(* with an error other than not-found, if the call invokes them.  A result *)
(* carries the error returned and the store operations that did fail.      *)
(***************************************************************************)
StoreOps == {"Get", "Put", "Delete", "Iterate"}

\* no store operation fails during a call, or one of them does
FaultChoices == {{}} \cup {{o} : o \in StoreOps}

\* Blocklist.get (blocklist.go:111-123) when store.Get can fail
getFaulty(st, key, faults) ==
    IF "Get" \in faults
    THEN [timestamp |-> ZeroTime, duration |-> -1, err |-> "StoreError"]
    ELSE get(st, key)

\* Blocklist.Exists (blocklist.go:34-52): the result of Delete is discarded
ExistsFaulty(st, overlay, t, faults) ==
    LET key == generateKey(overlay)
        g == getFaulty(st, key, faults)
    IN  IF g.err # "nil"
        THEN IF g.err = "ErrNotFound"
             THEN [ret |-> FALSE, err |-> "nil", store |-> st, failed |-> {}]
             ELSE [ret |-> FALSE, err |-> g.err, store |-> st, failed |-> {"Get"}]
        ELSE IF expired(t, g.timestamp, g.duration)
             THEN [ret |-> FALSE, err |-> "nil",
                   store |-> IF "Delete" \in faults THEN st ELSE Delete(st, key),
                   failed |-> faults \cap {"Delete"}]
             ELSE [ret |-> TRUE, err |-> "nil", store |-> st, failed |-> {}]

\* Blocklist.Add (blocklist.go:55-76): an error of get other than not-found is
\* returned, and so is the result of Put
AddFaulty(st, overlay, duration, t, faults) ==
    LET key == generateKey(overlay)
        g == getFaulty(st, key, faults)
    IN  IF g.err \notin {"nil", "ErrNotFound"}
        THEN [err |-> g.err, store |-> st, failed |-> {"Get"}]
        ELSE IF "Put" \in faults
             THEN [err |-> "StoreError", store |-> st, failed |-> {"Put"}]
             ELSE [err |-> "nil",
                   store |-> Put(st, key,
                                 [Timestamp |-> t,
                                  Duration  |-> DurationString(effective(duration,
                                                                         g.duration))]),
                   failed |-> {}]

\* Blocklist.Peers (blocklist.go:79-108): an error of Iterate or of the callback's get
\* is returned with no peers
PeersFaulty(st, t, faults) ==
    LET keys == {k \in DOMAIN st : HasPrefix(k, keyPrefix)}
    IN  IF "Iterate" \in faults
        THEN [ret |-> {}, err |-> "StoreError", failed |-> {"Iterate"}]
        ELSE IF keys # {} /\ "Get" \in faults
             THEN [ret |-> {}, err |-> "StoreError", failed |-> {"Get"}]
             ELSE [ret |-> Peers(st, t), err |-> "nil", failed |-> {}]

CallExistsFaulty(a, faults) ==
    /\ LET r == ExistsFaulty(store, a, now, faults) IN
        /\ store' = r.store
        /\ last' = [op |-> "Exists", a |-> a, ret |-> r.ret, err |-> r.err,
                    failed |-> r.failed, t |-> now]
    /\ UNCHANGED <<breakerVars, now, indef, extraVars>>

CallAddFaulty(a, d, faults) ==
    /\ LET r == AddFaulty(store, a, d, now, faults) IN
        /\ store' = r.store
        /\ last' = [op |-> "Add", a |-> a, d |-> d, err |-> r.err,
                    failed |-> r.failed, t |-> now]
        /\ indef' = IF d = 0 /\ r.err = "nil" THEN indef \cup {a} ELSE indef
    /\ UNCHANGED <<breakerVars, now, extraVars>>

CallPeersFaulty(faults) ==
    /\ LET r == PeersFaulty(store, now, faults) IN
        last' = [op |-> "Peers", ret |-> r.ret, err |-> r.err, failed |-> r.failed,
                 t |-> now]
    /\ UNCHANGED <<breakerVars, now, store, indef, extraVars>>

BlocklistFaultyNext ==
    \/ \E a \in Addrs, faults \in FaultChoices : CallExistsFaulty(a, faults)
    \/ \E a \in Addrs, d \in Durations, faults \in FaultChoices :
          CallAddFaulty(a, d, faults)
    \/ \E faults \in FaultChoices : CallPeersFaulty(faults)
    \/ Tick

SpecBlocklistFaulty == BlocklistInit /\ [][BlocklistFaultyNext]_vars

(***************************************************************************)
(* The blocklist under concurrent callers.  The Blocklist takes no lock    *)
(* (blocklist.go:21-23), so a call is a sequence of store operations, each *)
(* atomic in the store, and the calls of two goroutines interleave between *)
(* them.  The store's operations do not fail here.                         *)
(***************************************************************************)
\* the goroutines race on one address
ConcAddrs == {1}
ConcDurations == {-2, 0, 1, 2}

\* the other goroutine's unfinished Add on the address a, if there is one
PendingAdds(p, a) ==
    {q \in Procs \ {p} : calls[q].op = "Add" /\ calls[q].a = a}

\* what is stored for the address a: <<found, duration>>
StoredAs(st, a) ==
    IF generateKey(a) \in DOMAIN st
    THEN [found |-> TRUE, duration |-> ParseDuration(st[generateKey(a)].Duration)]
    ELSE [found |-> FALSE, duration |-> 0]

\* Add, blocklist.go:57-63: get
AddGet(p, a, d) ==
    /\ calls[p] = Idle
    /\ LET g == get(store, generateKey(a))
           others == PendingAdds(p, a)
       IN  calls' = [q \in Procs |->
                        IF q = p
                        THEN [op |-> "Add", a |-> a, d |-> d, gd |-> g.duration,
                              prior |-> StoredAs(store, a),
                              raced |-> others # {},
                              peerD |-> IF others # {}
                                        THEN calls[CHOOSE o \in others : TRUE].d ELSE d,
                              peerDone |-> FALSE]
                        ELSE IF q \in others
                        THEN [calls[q] EXCEPT !.raced = TRUE, !.peerD = d]
                        ELSE calls[q]]
    /\ last' = [op |-> "get", p |-> p]
    /\ UNCHANGED <<breakerVars, now, store, indef, metric>>

\* Add, blocklist.go:67-75: the duration to store, and Put with the current time
AddPut(p) ==
    /\ calls[p].op = "Add"
    /\ LET c == calls[p]
           key == generateKey(c.a)
       IN  /\ store' = Put(store, key,
                           [Timestamp |-> now,
                            Duration  |-> DurationString(effective(c.d, c.gd))])
           /\ last' = [op |-> "Add", p |-> p, a |-> c.a, d |-> c.d, prior |-> c.prior,
                       raced |-> c.raced, peerD |-> c.peerD, peerDone |-> c.peerDone,
                       t |-> now]
           /\ calls' = [q \in Procs |->
                           IF q = p THEN Idle
                           ELSE IF q \in PendingAdds(p, c.a) /\ calls[q].raced
                           THEN [calls[q] EXCEPT !.peerDone = TRUE]
                           ELSE calls[q]]
    /\ UNCHANGED <<breakerVars, now, indef, metric>>

\* Exists, blocklist.go:35-46 and 51: get and the expiry test; a missing or live entry
\* ends the call, an expired one leaves the Delete to do
ExistsGet(p, a) ==
    /\ calls[p] = Idle
    /\ LET key == generateKey(a)
           g == get(store, key)
       IN  IF g.err = "nil" /\ expired(now, g.timestamp, g.duration)
           THEN /\ calls' = [calls EXCEPT ![p] = [op |-> "Exists", a |-> a,
                                                  seen |-> store[key]]]
                /\ last' = [op |-> "get", p |-> p]
           ELSE /\ calls' = calls
                /\ last' = [op |-> "Exists", p |-> p, a |-> a, ret |-> g.err = "nil",
                            deleted |-> FALSE, t |-> now]
    /\ UNCHANGED <<breakerVars, now, store, indef, metric>>

\* Exists, blocklist.go:47-48: Delete by key, then return false
ExistsDelete(p) ==
    /\ calls[p].op = "Exists"
    /\ LET c == calls[p]
           key == generateKey(c.a)
       IN  /\ store' = Delete(store, key)
           /\ last' = [op |-> "Exists", p |-> p, a |-> c.a, ret |-> FALSE,
                       deleted |-> key \in DOMAIN store, seen |-> c.seen,
                       removed |-> IF key \in DOMAIN store THEN store[key] ELSE c.seen,
                       t |-> now]
    /\ calls' = [calls EXCEPT ![p] = Idle]
    /\ UNCHANGED <<breakerVars, now, indef, metric>>

\* Peers, blocklist.go:81: store.Iterate hands the next key with the prefix to the
\* callback, or ends and Peers returns the peers collected
PeersIterate(p) ==
    /\ calls[p] = Idle \/ (calls[p].op = "Peers" /\ calls[p].cur = {})
    /\ LET c == IF calls[p] = Idle
                THEN [op |-> "Peers", visited |-> {}, peers |-> {}, cur |-> {}]
                ELSE calls[p]
           rest == {k \in DOMAIN store : HasPrefix(k, keyPrefix)} \ c.visited
       IN  IF rest = {}
           THEN /\ calls' = [calls EXCEPT ![p] = Idle]
                /\ last' = [op |-> "Peers", p |-> p, ret |-> c.peers, err |-> "nil",
                            t |-> now]
           ELSE \E k \in rest :
                /\ calls' = [calls EXCEPT ![p] = [c EXCEPT !.cur = {k},
                                                           !.visited = c.visited \cup {k}]]
                /\ last' = [op |-> "iterate", p |-> p]
    /\ UNCHANGED <<breakerVars, now, store, indef, metric>>

\* Peers, blocklist.go:85-102: the callback reads the entry of the key again with get;
\* an error of get ends Peers with that error
PeersVisit(p) ==
    /\ calls[p].op = "Peers"
    /\ calls[p].cur # {}
    /\ LET c == calls[p]
           k == CHOOSE k \in c.cur : TRUE
           g == get(store, k)
       IN  IF g.err # "nil"
           THEN /\ calls' = [calls EXCEPT ![p] = Idle]
                /\ last' = [op |-> "Peers", p |-> p, ret |-> {}, err |-> g.err, t |-> now]
           ELSE /\ calls' = [calls EXCEPT ![p] =
                                [c EXCEPT !.cur = {},
                                          !.peers = IF expired(now, g.timestamp, g.duration)
                                                    THEN c.peers
                                                    ELSE c.peers \cup {unmarshalKey(k)}]]
                /\ last' = [op |-> "visit", p |-> p]
    /\ UNCHANGED <<breakerVars, now, store, indef, metric>>

BlocklistConcNext ==
    \/ \E p \in Procs, a \in ConcAddrs, d \in ConcDurations : AddGet(p, a, d)
    \/ \E p \in Procs : AddPut(p)
    \/ \E p \in Procs, a \in ConcAddrs : ExistsGet(p, a)
    \/ \E p \in Procs : ExistsDelete(p)
    \/ \E p \in Procs : PeersIterate(p)
    \/ \E p \in Procs : PeersVisit(p)
    \/ Tick

SpecBlocklistConc == BlocklistInit /\ [][BlocklistConcNext]_vars

(***************************************************************************)
(* The overlay metric (package swarm): Proximity, ExtendedProximity,       *)
(* Distance, DistanceRaw, DistanceCmp.  A byte slice is a sequence of      *)
(* numbers in 0..255.                                                      *)
(***************************************************************************)
MaxLen == 2                         \* byte slices of 0..MaxLen freely chosen bytes
LongLen == 256                      \* and the same padded with zero bytes to this length
ByteValues == {0, 1, 128}

MaxPO == 31
ExtendedPO == 36

\* uint8(n)
Uint8(n) == n % 256

RECURSIVE XorBits(_, _, _)
XorBits(x, y, n) ==
    IF n = 0 THEN 0
    ELSE (((x % 2) + (y % 2)) % 2) + 2 * XorBits(x \div 2, y \div 2, n - 1)

\* x ^ y on bytes
Xor(x, y) == XorBits(x, y, 8)

RECURSIVE Pow2(_)
Pow2(n) == IF n = 0 THEN 1 ELSE 2 * Pow2(n - 1)

\* the scan of Proximity / ExtendedProximity from byte i (0-based), bit j, over bn bytes:
\* the first (i, j) with (oxo >> (7-j)) & 1 # 0 gives uint8(i*8 + j), none gives max
RECURSIVE scan(_, _, _, _, _, _)
scan(max, one, other, bn, i, j) ==
    IF i >= bn THEN max
    ELSE IF j >= 8 THEN scan(max, one, other, bn, i + 1, 0)
    ELSE IF (Xor(one[i + 1], other[i + 1]) \div Pow2(7 - j)) % 2 # 0
         THEN Uint8(i * 8 + j)
         ELSE scan(max, one, other, bn, i, j + 1)

\* the number of bytes compared: max/8 + 1, lowered to uint8(len(one)) and uint8(len(other))
bytesCompared(max, one, other) ==
    Min(Min((max \div 8) + 1, Uint8(Len(one))), Uint8(Len(other)))

Proximity(one, other) == scan(MaxPO, one, other, bytesCompared(MaxPO, one, other), 0, 0)

ExtendedProximity(one, other) ==
    scan(ExtendedPO, one, other, bytesCompared(ExtendedPO, one, other), 0, 0)

DistanceRaw(x, y) ==
    IF Len(x) # Len(y)
    THEN [ret |-> <<>>, err |-> "address length must match"]
    ELSE [ret |-> [i \in 1..Len(x) |-> Xor(x[i], y[i])], err |-> "nil"]

\* big.Int.SetBytes: the bytes read as a big-endian unsigned number
RECURSIVE SetBytes(_)
SetBytes(bytes) ==
    IF Len(bytes) = 0 THEN 0
    ELSE 256 * SetBytes(SubSeq(bytes, 1, Len(bytes) - 1)) + bytes[Len(bytes)]

Distance(x, y) ==
    LET raw == DistanceRaw(x, y)
    IN  IF raw.err # "nil" THEN [ret |-> 0, err |-> raw.err]
        ELSE [ret |-> SetBytes(raw.ret), err |-> "nil"]

\* the loop of DistanceCmp from index i (1-based)
RECURSIVE cmpFromNoXor(_, _, _, _)
cmpFromNoXor(a, x, y, i) ==
    IF i > Len(a) THEN 0
    ELSE IF x[i] = y[i] THEN cmpFromNoXor(a, x, y, i + 1)
    ELSE IF x[i] < y[i] THEN 1
    ELSE -1

RECURSIVE cmpFrom(_, _, _, _)
cmpFrom(a, x, y, i) ==
    IF i > Len(a) THEN 0
    ELSE LET dx == Xor(x[i], a[i])
             dy == Xor(y[i], a[i])
         IN  IF dx = dy THEN cmpFrom(a, x, y, i + 1)
             ELSE IF dx < dy THEN 1
             ELSE -1

DistanceCmp(a, x, y) ==
    IF Len(a) # Len(x) \/ Len(a) # Len(y)
    THEN [ret |-> 0, err |-> "address length must match"]
    ELSE [ret |-> cmpFrom(a, x, y, 1), err |-> "nil"]

\* the byte slices the functions are called with
ShortSlices == UNION {[1..n -> ByteValues] : n \in 0..MaxLen}
Padded(s) == [i \in 1..LongLen |-> IF i <= Len(s) THEN s[i] ELSE 0]
Slices == ShortSlices \cup {Padded(s) : s \in ShortSlices}

\* the arguments of one call: three slices for DistanceCmp, two for the proximities
CmpArgs == [op : {"cmpArgs"}, a : ShortSlices, x : ShortSlices, y : ShortSlices]
PoArgs == [op : {"poArgs"}, one : Slices, other : Slices]

CallDistanceCmp ==
    /\ metric.op = "cmpArgs"
    /\ metric' = [op |-> "DistanceCmp", a |-> metric.a, x |-> metric.x, y |-> metric.y,
                  r |-> DistanceCmp(metric.a, metric.x, metric.y)]
    /\ UNCHANGED <<breakerVars, blocklistVars, now, last, calls>>

CallProximity ==
    /\ metric.op = "poArgs"
    /\ metric' = [op |-> "Proximity", max |-> MaxPO, one |-> metric.one,
                  other |-> metric.other, ret |-> Proximity(metric.one, metric.other)]
    /\ UNCHANGED <<breakerVars, blocklistVars, now, last, calls>>

CallExtendedProximity ==
    /\ metric.op = "poArgs"
    /\ metric' = [op |-> "ExtendedProximity", max |-> ExtendedPO, one |-> metric.one,
                  other |-> metric.other,
                  ret |-> ExtendedProximity(metric.one, metric.other)]
    /\ UNCHANGED <<breakerVars, blocklistVars, now, last, calls>>

MetricInit ==
    /\ metric \in CmpArgs \cup PoArgs
    /\ b = NewBreaker([Limit |-> 0, FailInterval |-> 0, StartBackoff |-> 0,
                       MaxBackoff |-> 0])
    /\ pc = [p \in Procs |-> "idle"]
    /\ now = 1
    /\ last = NoCall
    /\ gStreak = 0
    /\ gFirst = ZeroTime
    /\ gLast = ZeroTime
    /\ everLimit = FALSE
    /\ viaCooldown = [p \in Procs |-> FALSE]
    /\ store = <<>>
    /\ indef = {}
    /\ gTrip = ZeroTime
    /\ calls = [p \in Procs |-> Idle]

MetricNext ==
    \/ CallDistanceCmp
    \/ CallProximity
    \/ CallExtendedProximity

SpecMetric == MetricInit /\ [][MetricNext]_vars

(***************************************************************************)
(* Properties of the breaker                                               *)
(***************************************************************************)
\* the last step was the beforef of an Execute call
IsBeforef == last.op = "beforef"
\* the last step was the afterf of an Execute call
IsAfterf == last.op = "afterf"

\* the callers have seen a run of exactly b.limit failed calls, all reported within
\* failInterval of the first, and the call just made came before the backoff had elapsed
\* since the last of them (the trip)
AfterLimitFailures ==
    /\ IsBeforef
    /\ last.obs.streak = b.limit
    /\ last.obs.last - last.obs.first < b.failInterval
    /\ last.t - last.obs.last < last.pre.backoff

\* C1: after exactly `limit` consecutive failed Execute calls (no success in between,
\* all within failInterval), the next Execute made before the backoff has elapsed since
\* the trip returns ErrClosed, does not call f and changes nothing.
C1_TripRejectsNextCall ==
    AfterLimitFailures => (last.ret = "ErrClosed" /\ pc[last.p] = "idle")

C1_Witness ==
    AfterLimitFailures /\ b.limit = 2 /\ last.ret = "ErrClosed" /\ last.t > last.obs.last

\* C2 (as claimed): once consFailedCalls has reached limit the breaker stays tripped;
\* the only step that takes it from tripped to not tripped is a beforef that finds the
\* backoff elapsed, never the success of a call that was in flight.
C2_OnlyBackoffUntrips ==
    ((IsBeforef \/ IsAfterf)
        /\ last.pre.consFailedCalls >= b.limit /\ b.consFailedCalls < b.limit)
    => (IsBeforef /\ last.t - last.pre.closedTimestamp >= last.pre.backoff)

\* the breaker was tripped and its backoff had elapsed when the call just made started
CooldownElapsed ==
    /\ IsBeforef
    /\ last.pre.consFailedCalls >= b.limit
    /\ last.t - last.pre.closedTimestamp >= last.pre.backoff

\* C3: when the breaker is tripped and the backoff has elapsed, the next Execute calls
\* f; before that the failure counters are cleared and the backoff becomes
\* min(2 * backoff, maxBackoff); and if that f fails exactly one failure is recorded.
C3_CooldownDoublesBackoff ==
    /\ CooldownElapsed =>
        /\ last.ret = "nil"
        /\ pc[last.p] = "f"
        /\ b.consFailedCalls = 0
        /\ b.firstFailedTimestamp = ZeroTime
        /\ b.backoff = Min(2 * last.pre.backoff, b.maxBackoff)
    /\ (IsAfterf /\ last.failed /\ viaCooldown[last.p]) =>
        /\ b.consFailedCalls = 1
        /\ b.firstFailedTimestamp = now

C3_Witness ==
    /\ IsAfterf /\ last.failed /\ viaCooldown[last.p]
    /\ b.limit = 2
    /\ b.backoff = 2 /\ b.maxBackoff = 3
    /\ b.consFailedCalls = 1

C3_WitnessCapped ==
    CooldownElapsed /\ 2 * last.pre.backoff > b.maxBackoff /\ b.backoff = b.maxBackoff

\* C4: after an Execute whose f succeeds consFailedCalls = 0 and firstFailedTimestamp is
\* zero, whatever they were; and no call of a sequential caller is rejected with
\* ErrClosed unless some run of failed calls has reached limit.
C4_SuccessResetsStreak ==
    /\ (IsAfterf /\ ~last.failed) =>
        (b.consFailedCalls = 0 /\ b.firstFailedTimestamp = ZeroTime)
    /\ (IsBeforef /\ last.ret = "ErrClosed") => everLimit

C4_Witness ==
    /\ IsAfterf /\ ~last.failed
    /\ last.pre.consFailedCalls > 0
    /\ b.consFailedCalls = 0

\* C5 (as claimed): a failure recorded failInterval or more after the first failure of
\* the current streak does not add to it: it is the first failure of a new streak.
C5_LateFailureStartsNewStreak ==
    (IsAfterf /\ last.failed
        /\ last.pre.firstFailedTimestamp # ZeroTime
        /\ last.t - last.pre.firstFailedTimestamp >= b.failInterval)
    => (b.consFailedCalls = 1 /\ b.firstFailedTimestamp = last.t
        /\ (b.limit > 1 => b.consFailedCalls < b.limit))

\* C6: ClosedUntil returns closedTimestamp + backoff when consFailedCalls >= limit and
\* the current time otherwise, and it changes no field of the breaker.
C6_ClosedUntil ==
    last.op = "ClosedUntil" =>
        /\ last.ret = IF b.consFailedCalls >= b.limit
                      THEN b.closedTimestamp + b.backoff
                      ELSE now
        /\ b = last.pre

C6_Witness ==
    /\ last.op = "ClosedUntil"
    /\ b.consFailedCalls >= b.limit
    /\ last.ret = b.closedTimestamp + b.backoff
    /\ last.ret > now

(***************************************************************************)
(* Properties of the blocklist                                             *)
(***************************************************************************)
\* the stored duration and timestamp of address a in the store st
StoredDuration(st, a) == ParseDuration(st[generateKey(a)].Duration)
StoredTimestamp(st, a) == st[generateKey(a)].Timestamp
IsStored(st, a) == generateKey(a) \in DOMAIN st

\* Exists was just called for an address whose entry had a duration d > 0
ExistsOnTimedEntry ==
    /\ last.op = "Exists"
    /\ IsStored(last.pre, last.a)
    /\ StoredDuration(last.pre, last.a) > 0

C7_WitnessAtLimit ==
    /\ ExistsOnTimedEntry
    /\ last.t - StoredTimestamp(last.pre, last.a) = StoredDuration(last.pre, last.a)
    /\ last.ret = TRUE

\* C8: once Add(a, 0) has been called, whatever Add, Exists and Peers calls follow and
\* however much time passes, the entry of a is stored with duration 0 and Exists(a)
\* returns true.
C8_IndefiniteIsPermanent ==
    \A a \in indef :
        /\ IsStored(store, a)
        /\ StoredDuration(store, a) = 0
        /\ (last.op = "Exists" /\ last.a = a) => last.ret = TRUE

C8_Witness ==
    /\ last.op = "Add"
    /\ last.a \in indef
    /\ last.d > 0
    /\ IsStored(last.pre, last.a)
    /\ StoredDuration(last.pre, last.a) = 0
    /\ last.t > StoredTimestamp(last.pre, last.a) + MaxDur

\* Add was just called with a duration d >= 0
AddNonNegative == last.op = "Add" /\ last.d >= 0

\* C9: after Add(a, d) with d >= 0 the stored duration is d when a had no entry, 0 when
\* the entry had duration 0 or d = 0, and max(d, d_old) when the entry had a nonzero
\* duration d_old (expired or not); the stored timestamp is the current time, and no
\* other entry changes.
C9_AddExtendsAndResetsClock ==
    AddNonNegative =>
        /\ IsStored(store, last.a)
        /\ StoredTimestamp(store, last.a) = last.t
        /\ StoredDuration(store, last.a) =
              IF ~IsStored(last.pre, last.a) THEN last.d
              ELSE IF StoredDuration(last.pre, last.a) = 0 \/ last.d = 0 THEN 0
              ELSE Max(last.d, StoredDuration(last.pre, last.a))
        /\ \A o \in Addrs \ {last.a} :
              /\ IsStored(store, o) = IsStored(last.pre, o)
              /\ IsStored(store, o) => store[generateKey(o)] = last.pre[generateKey(o)]

\* a shorter Add over a longer entry that has expired but was not pruned
C9_Witness ==
    /\ AddNonNegative
    /\ IsStored(last.pre, last.a)
    /\ last.d > 0
    /\ StoredDuration(last.pre, last.a) > last.d
    /\ last.t - StoredTimestamp(last.pre, last.a) > StoredDuration(last.pre, last.a)
    /\ StoredDuration(store, last.a) = StoredDuration(last.pre, last.a)
    /\ StoredTimestamp(store, last.a) = last.t

\* C10: Peers returns exactly the addresses whose entry is not expired at the time of
\* the call (duration 0, or now - timestamp <= duration), and leaves the store as it was:
\* expired entries are left out of the result and stay stored.
C10_PeersReadOnlySnapshot ==
    last.op = "Peers" =>
        /\ last.ret = {a \in Addrs :
                         /\ IsStored(last.pre, a)
                         /\ \/ StoredDuration(last.pre, a) = 0
                            \/ last.t - StoredTimestamp(last.pre, a)
                                   <= StoredDuration(last.pre, a)}
        /\ store = last.pre

C10_Witness ==
    /\ last.op = "Peers"
    /\ \E a \in Addrs :
        /\ IsStored(store, a)
        /\ StoredDuration(store, a) > 0
        /\ last.t - StoredTimestamp(store, a) > StoredDuration(store, a)
        /\ a \notin last.ret
    /\ last.ret # {}

(***************************************************************************)
(* Properties of the breaker under concurrent callers                      *)
(***************************************************************************)
\* C16: in every reachable state of the breaker, whatever the interleaving of Execute
\* and ClosedUntil calls, consFailedCalls = 0 if and only if firstFailedTimestamp is zero.
C16_CounterTimestampCoupling ==
    (b.consFailedCalls = 0) <=> (b.firstFailedTimestamp = ZeroTime)

\* a reset while another call is still in flight
C16_Witness ==
    /\ (IsBeforef \/ IsAfterf)
    /\ last.pre.consFailedCalls > 0
    /\ last.pre.firstFailedTimestamp # ZeroTime
    /\ b.consFailedCalls = 0
    /\ b.firstFailedTimestamp = ZeroTime
    /\ \E q \in Procs : q # last.p /\ pc[q] = "f"

\* the call just made was rejected with ErrClosed
Rejected == IsBeforef /\ last.ret = "ErrClosed"

\* C17: an Execute that returns ErrClosed leaves consFailedCalls, firstFailedTimestamp,
\* closedTimestamp and backoff as they were, and does not call f.
C17_RejectionHasNoEffect ==
    Rejected => (b = last.pre /\ pc[last.p] = "idle")

C17_Witness ==
    /\ Rejected
    /\ last.t > b.closedTimestamp
    /\ b.consFailedCalls > b.limit

\* C18 (as claimed): for every configuration the backoff never exceeds maxBackoff, never
\* decreases, and changes only when a beforef finds the breaker tripped and the backoff
\* elapsed.
C18_BackoffOnlyGrows ==
    (IsBeforef \/ IsAfterf) =>
        /\ b.backoff <= b.maxBackoff
        /\ b.backoff >= last.pre.backoff
        /\ (b.backoff # last.pre.backoff) =>
              (IsBeforef /\ last.pre.consFailedCalls >= b.limit
                 /\ last.t - last.pre.closedTimestamp >= last.pre.backoff)

\* C19: whenever consFailedCalls >= limit (also above it, after concurrent failures),
\* closedTimestamp is set, is not older than firstFailedTimestamp and is the time at which
\* the count reached limit; and an Execute that starts at or after
\* closedTimestamp + backoff is let through.
C19_NoPermanentLockOut ==
    /\ (b.consFailedCalls >= b.limit) =>
        /\ b.closedTimestamp # ZeroTime
        /\ b.closedTimestamp >= b.firstFailedTimestamp
        /\ b.closedTimestamp = gTrip
    /\ (IsBeforef /\ last.pre.consFailedCalls >= b.limit
          /\ last.t >= last.pre.closedTimestamp + last.pre.backoff)
        => (last.ret = "nil" /\ pc[last.p] = "f")

\* a second trip, pushed above limit by a concurrent failure, then let through
C19_Witness ==
    /\ IsBeforef
    /\ last.pre.consFailedCalls > b.limit
    /\ last.pre.closedTimestamp > 1
    /\ last.pre.backoff > 1
    /\ last.ret = "nil"

(***************************************************************************)
(* Properties of the overlay metric                                        *)
(***************************************************************************)
\* DistanceCmp was just called with three slices of one length
CmpEqualLength ==
    /\ metric.op = "DistanceCmp"
    /\ Len(metric.a) = Len(metric.x)
    /\ Len(metric.a) = Len(metric.y)

\* C14: for equal-length a, x, y: DistanceCmp(a, x, y) is 1 iff Distance(a, x) <
\* Distance(a, y), -1 iff Distance(a, x) > Distance(a, y), 0 iff x = y, and it is the
\* negation of DistanceCmp(a, y, x).
C14_DistanceCmpIsXorOrder ==
    CmpEqualLength =>
        LET dx == Distance(metric.a, metric.x).ret
            dy == Distance(metric.a, metric.y).ret
        IN  /\ metric.r.err = "nil"
            /\ (metric.r.ret = 1) <=> (dx < dy)
            /\ (metric.r.ret = -1) <=> (dx > dy)
            /\ (metric.r.ret = 0) <=> (metric.x = metric.y)
            /\ metric.r.ret = -(DistanceCmp(metric.a, metric.y, metric.x).ret)

\* x is closer to a although its bytes are the larger ones
C14_Witness ==
    /\ CmpEqualLength
    /\ Len(metric.a) = 2
    /\ metric.r.ret = 1
    /\ metric.x[1] = metric.y[1]
    /\ metric.x[2] > metric.y[2]

\* bit k (0 = most significant bit of the first byte) of the slice s
Bit(s, k) == (s[(k \div 8) + 1] \div Pow2(7 - (k % 8))) % 2

\* the index of the first bit at which one and other differ within their first
\* min(ceil((max+1)/8), shorter length) bytes, or max if they agree there
FirstDifferingBit(max, one, other) ==
    LET n == Min((max + 8) \div 8, Min(Len(one), Len(other)))
        D == {k \in 0..(8 * n - 1) : Bit(one, k) # Bit(other, k)}
    IN  IF D = {} THEN max ELSE CHOOSE k \in D : \A m \in D : k <= m

\* C15 (as claimed): for byte slices of any length, also 256 bytes or more, Proximity and
\* ExtendedProximity return the index of the first differing bit within the bytes
\* compared, or the maximum if none differs, and the result lies in 0..maximum.
C15_ProximityIsFirstDifferingBit ==
    (metric.op \in {"Proximity", "ExtendedProximity"}) =>
        /\ metric.ret = FirstDifferingBit(metric.max, metric.one, metric.other)
        /\ metric.ret \in 0..metric.max

(***************************************************************************)
(* Properties of the blocklist under concurrent callers                    *)
(***************************************************************************)
\* the second of two Add calls for one address that ran concurrently (each did its get
\* before the other's Put) has just done its Put, so both have completed
BothRacedAddsDone == last.op = "Add" /\ last.raced /\ last.peerDone

\* C11 (as claimed): the duration stored after two concurrent Add calls for the same
\* address with requested durations d1 and d2 is always d1 or d2.
C11_RaceStoresARequestedDuration ==
    BothRacedAddsDone => StoredDuration(store, last.a) \in {last.d, last.peerD}

\* C11 (amended): the duration stored after the two calls is d1, d2 or the duration that
\* was stored for the address before them; with no entry before them it can also be the
\* -1ns that get reports for a missing entry, when d1 or d2 is below -1ns.
C11_RaceStoresRequestedOrPrior ==
    BothRacedAddsDone =>
        StoredDuration(store, last.a) \in
            {last.d, last.peerD}
            \cup (IF last.prior.found THEN {last.prior.duration} ELSE {})
            \cup (IF ~last.prior.found /\ (last.d < -1 \/ last.peerD < -1)
                  THEN {-1} ELSE {})

\* the longer duration stored before the race survives it
C11_Witness ==
    /\ BothRacedAddsDone
    /\ last.d # last.peerD
    /\ last.prior.found
    /\ last.prior.duration > last.d
    /\ last.prior.duration > last.peerD
    /\ StoredDuration(store, last.a) = last.prior.duration

\* C12 (as claimed): whenever a store operation invoked by Exists, Add or Peers fails
\* with an error other than not-found, the call returns that error; and no call returns
\* not-found as its error.
C12_StoreErrorsReturned ==
    (last.op \in {"Exists", "Add", "Peers"}) =>
        /\ (last.failed # {}) => last.err = "StoreError"
        /\ last.err # "ErrNotFound"

\* C13 (as claimed): a Peers call that interleaves with Add and Exists calls, on a store
\* whose operations do not fail, returns without error.
C13_PeersNeverFails ==
    last.op = "Peers" => last.err = "nil"

\* C20 (as claimed): the entry that Exists deletes is the entry it read and judged
\* expired, never one that an Add has put since.
C20_ExistsDeletesWhatItJudged ==
    (last.op = "Exists" /\ last.deleted) => last.removed = last.seen

====
